---------------------------- MODULE Spec2Model ----------------------------
(***************************************************************************)
(* Model of the audio processing pipeline of birdnet-go (package myaudio,  *)
(* process.go): ProcessData decodes a PCM byte buffer, runs the BirdNET    *)
(* prediction, wraps the outcome in a queue.Results message and offers it  *)
(* to the buffered channel queue.ResultsQueue with a non-blocking send.    *)
(*                                                                         *)
(* Go values are represented as follows.                                   *)
(*   []byte          a reference (buffer id) into heap; heap[b] is the     *)
(*                   sequence of bytes 0..255 behind the slice             *)
(*   int16 / int32   a signed integer in the type's range; shifts wrap     *)
(*   float32         a dyadic rational [sig, exp] standing for sig*2^exp,  *)
(*                   sig odd (or sig = 0 and exp = 0)                      *)
(*   error           the chain of messages, <<>> being nil                 *)
(*   nil slice       <<>>                                                  *)
(***************************************************************************)
EXTENDS Integers, Sequences, FiniteSets, TLC

(***************************************************************************)
(* Bounds of the model.                                                    *)
(***************************************************************************)
\* capacity of the buffered channel queue.ResultsQueue
QueueCap == 2
\* number of ProcessData calls made in one behaviour
MaxCalls == 3
\* longest byte buffer handed to the decoder in SpecDecode
MaxLen == 7

\* goroutines that call ProcessData, one per audio source
Procs == {"p1", "p2"}
\* byte buffers owned by the callers
BufIds == {"b1", "b2"}
\* byte values the decoder is exercised with
Bytes == {0, 127, 128, 255}
\* values of conf.BitDepth the model is run with
BitDepths == {8, 16, 24, 32}

(***************************************************************************)
(* Integer operations of Go on two's-complement values.  \div is the floor *)
(* division and % the non-negative remainder, so the recursions below see  *)
(* the bits of a negative number as those of its two's-complement form.    *)
(***************************************************************************)
RECURSIVE BitOr(_, _)
\* a | b
BitOr(a, b) ==
    IF a = 0 THEN b
    ELSE IF b = 0 THEN a
    ELSE IF a = -1 \/ b = -1 THEN -1
    ELSE 2 * BitOr(a \div 2, b \div 2)
         + (IF a % 2 = 1 \/ b % 2 = 1 THEN 1 ELSE 0)

RECURSIVE BitAnd(_, _)
\* a & b
BitAnd(a, b) ==
    IF a = 0 \/ b = 0 THEN 0
    ELSE IF a = -1 THEN b
    ELSE IF b = -1 THEN a
    ELSE 2 * BitAnd(a \div 2, b \div 2)
         + (IF a % 2 = 1 /\ b % 2 = 1 THEN 1 ELSE 0)

\* ^a
BitNot(a) == -a - 1

\* a << k on a signed integer type of w bits: the bits shifted out are lost
\* and bit w-1 of the result is its sign
Shl(a, k, w) ==
    LET low == a % (2 ^ (w - k))
    IN  IF low >= 2 ^ (w - k - 1)
        THEN (low - 2 ^ (w - k)) * (2 ^ k)
        ELSE low * (2 ^ k)

(***************************************************************************)
(* float32.  A float32 has a significand of 24 bits; the conversion of an  *)
(* integer rounds to the nearest representable value, ties to even.        *)
(***************************************************************************)
RECURSIVE Normalize(_, _)
\* the canonical form of sig * 2^exp
Normalize(sig, exp) ==
    IF sig = 0 THEN [sig |-> 0, exp |-> 0]
    ELSE IF sig % 2 = 0 THEN Normalize(sig \div 2, exp + 1)
    ELSE [sig |-> sig, exp |-> exp]

RECURSIVE ExcessBits(_)
\* for n <= 0: the number of bits by which |n| exceeds 24 bits
ExcessBits(n) ==
    IF n > -16777216 THEN 0 ELSE 1 + ExcessBits((n + 1) \div 2)

\* float32(x) for an integer x of at most 32 bits
Float32(x) ==
    LET n    == IF x > 0 THEN -x ELSE x
        k    == ExcessBits(n)
        q    == (n + 2 ^ k - 1) \div (2 ^ k)
        r    == q * (2 ^ k) - n
        half == IF k = 0 THEN 0 ELSE 2 ^ (k - 1)
        up   == k > 0 /\ (r > half \/ (r = half /\ q % 2 = 1))
        m    == IF up THEN q - 1 ELSE q
    IN  Normalize(IF x > 0 THEN -m ELSE m, k)

\* f / divisor for a divisor that is the power of two 2^bits
DivPow2(f, bits) ==
    IF f.sig = 0 THEN f ELSE [sig |-> f.sig, exp |-> f.exp - bits]

(***************************************************************************)
(* The sample decoder.                                                     *)
(***************************************************************************)
\* Sample16 with the index i in place of i*2
Sample16Overlap(sample, i) ==
    BitOr(sample[i + 1], Shl(sample[i + 1 + 1], 8, 16))

\* the int16 that convert16BitToFloat32 assembles for sample i (from 0)
Sample16(sample, i) ==
    BitOr(sample[i * 2 + 1], Shl(sample[i * 2 + 1 + 1], 8, 16))

\* Sample24 without the sign extension
Sample24Unsigned(sample, i) ==
    BitOr(BitOr(sample[i * 3 + 1],
                Shl(sample[i * 3 + 1 + 1], 8, 32)),
          Shl(sample[i * 3 + 2 + 1], 16, 32))

\* the int32 that convert24BitToFloat32 assembles for sample i (from 0)
Sample24(sample, i) ==
    LET s == BitOr(BitOr(sample[i * 3 + 1],
                         Shl(sample[i * 3 + 1 + 1], 8, 32)),
                   Shl(sample[i * 3 + 2 + 1], 16, 32))
    IN  IF BitAnd(s, 8388608) > 0
        THEN BitOr(s, BitNot(16777215))
        ELSE s

\* the int32 that convert32BitToFloat32 assembles for sample i (from 0)
Sample32(sample, i) ==
    BitOr(BitOr(BitOr(sample[i * 4 + 1],
                      Shl(sample[i * 4 + 1 + 1], 8, 32)),
                Shl(sample[i * 4 + 2 + 1], 16, 32)),
          Shl(sample[i * 4 + 3 + 1], 24, 32))

convert16BitToFloat32(sample) ==
    LET length == Len(sample) \div 2
    IN  [i \in 1..length |-> DivPow2(Float32(Sample16(sample, i - 1)), 15)]

convert24BitToFloat32(sample) ==
    LET length == Len(sample) \div 3
    IN  [i \in 1..length |-> DivPow2(Float32(Sample24(sample, i - 1)), 23)]

convert32BitToFloat32(sample) ==
    LET length == Len(sample) \div 4
    IN  [i \in 1..length |-> DivPow2(Float32(Sample32(sample, i - 1)), 31)]

\* ConvertToFloat32 with the default case decoding as 16 bit
ConvertToFloat32Default16(sample, bitDepth) ==
    CASE bitDepth = 24 ->
           [val |-> <<convert24BitToFloat32(sample)>>, err |-> <<>>]
      [] bitDepth = 32 ->
           [val |-> <<convert32BitToFloat32(sample)>>, err |-> <<>>]
      [] OTHER ->
           [val |-> <<convert16BitToFloat32(sample)>>, err |-> <<>>]

\* the pair ([][]float32, error) that ConvertToFloat32 returns
ConvertToFloat32(sample, bitDepth) ==
    CASE bitDepth = 16 ->
           [val |-> <<convert16BitToFloat32(sample)>>, err |-> <<>>]
      [] bitDepth = 24 ->
           [val |-> <<convert24BitToFloat32(sample)>>, err |-> <<>>]
      [] bitDepth = 32 ->
           [val |-> <<convert32BitToFloat32(sample)>>, err |-> <<>>]
      [] OTHER ->
           [val |-> <<>>, err |-> <<"unsupported audio bit depth">>]

(***************************************************************************)
(* Values that come from outside process.go.                               *)
(***************************************************************************)
\* the bytes of the c-th capture window; the windows have one length, that
\* of the callers' buffers
Window(c) == IF c % 2 = 1 THEN <<0, 128, 0, 128>> ELSE <<255, 255, 127, 0>>
\* the buffer each goroutine reads its capture windows into
BufOf == [p \in Procs |-> IF p = "p1" THEN "b1" ELSE "b2"]
\* the audio source each goroutine serves
SourceOf == [p \in Procs |-> IF p = "p1" THEN "mic" ELSE "rtsp"]
\* the arrival timestamp of the c-th capture window
ArrivalTime(c) == 100 + c
\* a float32 of magnitude at least 0.5
Loud(f) ==
    /\ f.sig # 0
    /\ \/ f.exp >= 0
       \/ (IF f.sig < 0 THEN -f.sig ELSE f.sig) >= 2 ^ (-f.exp - 1)

\* the detections of the inference engine: it reports a bird when the first
\* sample of the window is loud
Detect(sampleData) ==
    IF Len(sampleData[1]) > 0 /\ Loud(sampleData[1][1])
    THEN <<[Species |-> "robin", Confidence |-> 90]>>
    ELSE <<>>

\* what bn.Predict may return: (results, nil) or (nil, err)
PredictOutcomes(sampleData) ==
    { [val |-> Detect(sampleData), err |-> <<>>],
      [val |-> <<>>, err |-> <<"interpreter invoke failed">>] }

\* fmt.Errorf(format + ": %w", err)
Errorf(msg, err) == <<msg>> \o err

VARIABLES
    heap,          \* the bytes behind each caller-owned buffer
    bitDepth,      \* conf.BitDepth
    now,           \* the wall clock read by time.Now()
    ResultsQueue,  \* queue.ResultsQueue, the elements buffered in the channel
    logged,        \* the lines written with log.Println
    consumed,      \* the messages the consumer has received from the channel
    pc,            \* where each goroutine stands in ProcessData
    frame,         \* the parameters and locals of each goroutine's call
    ret,           \* the error returned by each goroutine's last call
    calls,         \* history: number of ProcessData calls started
    attempts,      \* history: number of calls that executed the select
    trace,         \* history: the stages each goroutine's call has executed
    passed,        \* history: the bytes of the buffer when the call was made
    outcome,       \* history: what the select of each goroutine's call did
    queuedBytes,   \* history: for each queued message, its bytes when sent
    dispatched     \* history: every select executed, its message and branch

vars == <<heap, bitDepth, now, ResultsQueue, logged, consumed, pc, frame, ret,
          calls, attempts, trace, passed, outcome, queuedBytes,
          dispatched>>

\* the frame of a goroutine that has not called ProcessData
NoFrame ==
    [data |-> "b1", startTime |-> 0, source |-> "", predictStart |-> 0,
     sampleData |-> <<>>, results |-> <<>>, err |-> <<>>,
     elapsedTime |-> 0, resultsMessage |-> <<>>]

Init ==
    /\ heap = [b \in BufIds |-> <<0, 0, 0, 0>>]
    /\ bitDepth \in BitDepths
    /\ now = 0
    /\ ResultsQueue = <<>>
    /\ logged = <<>>
    /\ consumed = <<>>
    /\ pc = [p \in Procs |-> "idle"]
    /\ frame = [p \in Procs |-> NoFrame]
    /\ ret = [p \in Procs |-> <<>>]
    /\ calls = 0
    /\ attempts = 0
    /\ trace = [p \in Procs |-> <<>>]
    /\ passed = [p \in Procs |-> <<>>]
    /\ outcome = [p \in Procs |-> "none"]
    /\ queuedBytes = <<>>
    /\ dispatched = <<>>

(***************************************************************************)
(* ProcessData, step by step.                                              *)
(***************************************************************************)
\* a goroutine calls ProcessData(bn, data, startTime, source); the function
\* first reads the clock into predictStart.  The action leaves heap to the
\* caller's part of the step (see Capture).
Call(p, b, t, s) ==
    /\ pc[p] = "idle"
    /\ calls < MaxCalls
    /\ frame' = [frame EXCEPT ![p] =
                    [data |-> b, startTime |-> t, source |-> s,
                     predictStart |-> now,
                     sampleData |-> <<>>, results |-> <<>>, err |-> <<>>,
                     elapsedTime |-> 0, resultsMessage |-> <<>>]]
    /\ pc' = [pc EXCEPT ![p] = "decode"]
    /\ ret' = [ret EXCEPT ![p] = <<>>]
    /\ calls' = calls + 1
    /\ trace' = [trace EXCEPT ![p] = <<>>]
    /\ passed' = [passed EXCEPT ![p] = heap'[b]]
    /\ outcome' = [outcome EXCEPT ![p] = "none"]
    /\ UNCHANGED <<bitDepth, now, ResultsQueue, logged, consumed,
                   attempts, queuedBytes, dispatched>>

\* Decode reading a buffer shared by all calls in place of its argument
DecodeShared(p) ==
    /\ pc[p] = "decode"
    /\ LET r == ConvertToFloat32(heap["b1"], bitDepth)
       IN  /\ frame' = [frame EXCEPT ![p].sampleData = r.val,
                                     ![p].err = r.err]
           /\ IF r.err # <<>>
              THEN /\ ret' = [ret EXCEPT ![p] =
                         Errorf("error converting " \o ToString(bitDepth)
                                \o " bit PCM data to float32", r.err)]
                   /\ pc' = [pc EXCEPT ![p] = "idle"]
              ELSE /\ ret' = ret
                   /\ pc' = [pc EXCEPT ![p] = "predict"]
    /\ now' = now + 1
    /\ trace' = [trace EXCEPT ![p] = Append(@, "Decode")]
    /\ UNCHANGED <<heap, bitDepth, ResultsQueue, logged, consumed, calls,
                   attempts, passed, outcome, queuedBytes, dispatched>>

\* sampleData, err := ConvertToFloat32(data, conf.BitDepth), and the return
\* of the wrapped error when err != nil
Decode(p) ==
    /\ pc[p] = "decode"
    /\ LET r == ConvertToFloat32(heap[frame[p].data], bitDepth)
       IN  /\ frame' = [frame EXCEPT ![p].sampleData = r.val,
                                     ![p].err = r.err]
           /\ IF r.err # <<>>
              THEN /\ ret' = [ret EXCEPT ![p] =
                         Errorf("error converting " \o ToString(bitDepth)
                                \o " bit PCM data to float32", r.err)]
                   /\ pc' = [pc EXCEPT ![p] = "idle"]
              ELSE /\ ret' = ret
                   /\ pc' = [pc EXCEPT ![p] = "predict"]
    /\ now' = now + 1
    /\ trace' = [trace EXCEPT ![p] = Append(@, "Decode")]
    /\ UNCHANGED <<heap, bitDepth, ResultsQueue, logged, consumed, calls,
                   attempts, passed, outcome, queuedBytes, dispatched>>

\* Predict with the check of err left out
PredictUnchecked(p) ==
    /\ pc[p] = "predict"
    /\ \E out \in PredictOutcomes(frame[p].sampleData) :
          frame' = [frame EXCEPT ![p].results = out.val,
                                 ![p].err = out.err]
    /\ ret' = ret
    /\ pc' = [pc EXCEPT ![p] = "build"]
    /\ now' = now + 1
    /\ trace' = [trace EXCEPT ![p] = Append(@, "Infer")]
    /\ UNCHANGED <<heap, bitDepth, ResultsQueue, logged, consumed, calls,
                   attempts, passed, outcome, queuedBytes, dispatched>>

\* Predict with a failed inference tried again in place of the error return
PredictRetry(p) ==
    /\ pc[p] = "predict"
    /\ \E out \in PredictOutcomes(frame[p].sampleData) :
          /\ frame' = [frame EXCEPT ![p].results = out.val,
                                    ![p].err = out.err]
          /\ pc' = [pc EXCEPT ![p] =
                       IF out.err # <<>> THEN "predict" ELSE "build"]
    /\ ret' = ret
    /\ now' = now + 1
    /\ trace' = [trace EXCEPT ![p] = Append(@, "Infer")]
    /\ UNCHANGED <<heap, bitDepth, ResultsQueue, logged, consumed, calls,
                   attempts, passed, outcome, queuedBytes, dispatched>>

\* results, err := bn.Predict(sampleData) returns, and the return of the
\* wrapped error when err != nil
Predict(p) ==
    /\ pc[p] = "predict"
    /\ \E out \in PredictOutcomes(frame[p].sampleData) :
          /\ frame' = [frame EXCEPT ![p].results = out.val,
                                    ![p].err = out.err]
          /\ IF out.err # <<>>
             THEN /\ ret' = [ret EXCEPT ![p] =
                                Errorf("error predicting species", out.err)]
                  /\ pc' = [pc EXCEPT ![p] = "idle"]
             ELSE /\ ret' = ret
                  /\ pc' = [pc EXCEPT ![p] = "build"]
    /\ now' = now + 1
    /\ trace' = [trace EXCEPT ![p] = Append(@, "Infer")]
    /\ UNCHANGED <<heap, bitDepth, ResultsQueue, logged, consumed, calls,
                   attempts, passed, outcome, queuedBytes, dispatched>>

\* time.Since(startTime)
logProcessingTime(startTime) == now - startTime

\* NewResults with the start of the processing as the message's StartTime
NewResultsPredictStart(f, elapsedTime) ==
    [StartTime   |-> f.predictStart,
     ElapsedTime |-> elapsedTime,
     PCMdata     |-> f.data,
     Results     |-> f.results,
     Source      |-> f.source]

\* the queue.Results literal built from the locals f of a call
NewResults(f, elapsedTime) ==
    [StartTime   |-> f.startTime,
     ElapsedTime |-> elapsedTime,
     PCMdata     |-> f.data,
     Results     |-> f.results,
     Source      |-> f.source]

\* elapsedTime := logProcessingTime(predictStart); resultsMessage := ...
BuildEnvelope(p) ==
    /\ pc[p] = "build"
    /\ LET elapsedTime == logProcessingTime(frame[p].predictStart)
       IN  frame' = [frame EXCEPT
                        ![p].elapsedTime = elapsedTime,
                        ![p].resultsMessage =
                             <<NewResults(frame[p], elapsedTime)>>]
    /\ pc' = [pc EXCEPT ![p] = "dispatch"]
    /\ trace' = [trace EXCEPT ![p] = Append(@, "BuildEnvelope")]
    /\ UNCHANGED <<heap, bitDepth, now, ResultsQueue, logged, consumed, ret,
                   calls, attempts, passed, outcome, queuedBytes, dispatched>>

\* SelectSend with the capacity test off by one
SelectSendOverCap(q, m) ==
    IF Len(q) <= QueueCap
    THEN [queue |-> Append(q, m), sent |-> TRUE]
    ELSE [queue |-> q, sent |-> FALSE]

\* SelectSend with the new message put in front of the buffered ones
SelectSendFront(q, m) ==
    IF Len(q) < QueueCap
    THEN [queue |-> <<m>> \o q, sent |-> TRUE]
    ELSE [queue |-> q, sent |-> FALSE]

\* SelectSend as a send that never takes the default branch
SelectSendAlways(q, m) == [queue |-> Append(q, m), sent |-> TRUE]

\* SelectSend making room in a full channel by dropping its oldest message
SelectSendDropOldest(q, m) ==
    IF Len(q) < QueueCap
    THEN [queue |-> Append(q, m), sent |-> TRUE]
    ELSE [queue |-> Append(Tail(q), m), sent |-> TRUE]

\* select { case queue.ResultsQueue <- m: default: }: the send is taken when
\* the channel has room, the default otherwise
SelectSend(q, m) ==
    IF Len(q) < QueueCap
    THEN [queue |-> Append(q, m), sent |-> TRUE]
    ELSE [queue |-> q, sent |-> FALSE]

\* LogQueueFull with the log line written after the select, on both paths
LogQueueFullAlways(l, sent) == Append(l, "Queue is full!")

\* the body of the default case
LogQueueFull(l, sent) ==
    IF sent THEN l ELSE Append(l, "Queue is full!")

\* ReturnAfterSelect with the full queue reported to the caller
ReturnAfterSelectErr(sent) ==
    IF sent THEN <<>> ELSE <<"queue is full">>

\* the return statement that follows the select
ReturnAfterSelect(sent) == <<>>

\* Dispatch with a plain send in place of the select: the goroutine waits
\* until the channel has room
DispatchBlocking(p) ==
    /\ pc[p] = "dispatch"
    /\ Len(ResultsQueue) < QueueCap
    /\ LET m == frame[p].resultsMessage[1]
       IN  /\ ResultsQueue' = Append(ResultsQueue, m)
           /\ queuedBytes' = Append(queuedBytes, heap[m.PCMdata])
           /\ dispatched' = Append(dispatched, [msg |-> m, sent |-> TRUE])
    /\ ret' = [ret EXCEPT ![p] = <<>>]
    /\ outcome' = [outcome EXCEPT ![p] = "enqueued"]
    /\ pc' = [pc EXCEPT ![p] = "idle"]
    /\ attempts' = attempts + 1
    /\ trace' = [trace EXCEPT ![p] = Append(@, "Dispatch")]
    /\ UNCHANGED <<heap, bitDepth, now, logged, consumed, frame, calls,
                   passed>>

\* the select statement and the return nil that ends ProcessData
Dispatch(p) ==
    /\ pc[p] = "dispatch"
    /\ LET m == frame[p].resultsMessage[1]
           r == SelectSend(ResultsQueue, m)
       IN  /\ ResultsQueue' = r.queue
           /\ queuedBytes' = IF r.sent
                             THEN Append(queuedBytes, heap[m.PCMdata])
                             ELSE queuedBytes
           /\ logged' = LogQueueFull(logged, r.sent)
           /\ ret' = [ret EXCEPT ![p] = ReturnAfterSelect(r.sent)]
           /\ outcome' = [outcome EXCEPT ![p] =
                              IF r.sent THEN "enqueued" ELSE "shed"]
           /\ dispatched' = Append(dispatched, [msg |-> m, sent |-> r.sent])
    /\ pc' = [pc EXCEPT ![p] = "idle"]
    /\ attempts' = attempts + 1
    /\ trace' = [trace EXCEPT ![p] = Append(@, "Dispatch")]
    /\ UNCHANGED <<heap, bitDepth, now, consumed, frame, calls, passed>>

(***************************************************************************)
(* The environment of ProcessData.                                         *)
(***************************************************************************)
\* the consumer receives the oldest message from the channel
Drain ==
    /\ ResultsQueue # <<>>
    /\ consumed' = Append(consumed, Head(ResultsQueue))
    /\ ResultsQueue' = Tail(ResultsQueue)
    /\ queuedBytes' = Tail(queuedBytes)
    /\ UNCHANGED <<heap, bitDepth, now, logged, pc, frame, ret, calls,
                   attempts, trace, passed, outcome, dispatched>>

\* a caller reads the next capture window into its buffer b; it does so only
\* while no call is using the buffer
CallerWrite(b, bytes) ==
    /\ \A p \in Procs : pc[p] # "idle" => frame[p].data # b
    /\ heap' = [heap EXCEPT ![b] = bytes]

\* one round of a capture goroutine: read a window, hand it to ProcessData
Capture(p) ==
    /\ CallerWrite(BufOf[p], Window(calls + 1))
    /\ Call(p, BufOf[p], ArrivalTime(calls + 1), SourceOf[p])

Next ==
    \/ \E p \in Procs : Capture(p)
    \/ \E p \in Procs : Decode(p)
    \/ \E p \in Procs : Predict(p)
    \/ \E p \in Procs : BuildEnvelope(p)
    \/ \E p \in Procs : Dispatch(p)
    \/ Drain

Spec == Init /\ [][Next]_vars

(***************************************************************************)
(* The decoder on its own: one call stands at the decode step with a       *)
(* buffer drawn from all byte sequences of up to MaxLen bytes.             *)
(***************************************************************************)
ByteSeqs == UNION {[1..n -> Bytes] : n \in 0..MaxLen}

InitDecode ==
    /\ \E bytes \in ByteSeqs :
          /\ heap = [b \in BufIds |-> IF b = "b1" THEN bytes ELSE <<>>]
          /\ passed = [p \in Procs |-> IF p = "p1" THEN bytes ELSE <<>>]
    /\ bitDepth \in BitDepths
    /\ now = 0
    /\ ResultsQueue = <<>>
    /\ logged = <<>>
    /\ consumed = <<>>
    /\ pc = [p \in Procs |-> IF p = "p1" THEN "decode" ELSE "idle"]
    /\ frame = [p \in Procs |->
                  IF p = "p1"
                  THEN [NoFrame EXCEPT !.startTime = ArrivalTime(1),
                                       !.source = SourceOf[p]]
                  ELSE NoFrame]
    /\ ret = [p \in Procs |-> <<>>]
    /\ calls = 1
    /\ attempts = 0
    /\ trace = [p \in Procs |-> <<>>]
    /\ outcome = [p \in Procs |-> "none"]
    /\ queuedBytes = <<>>
    /\ dispatched = <<>>

NextDecode == \E p \in Procs : Decode(p)

SpecDecode == InitDecode /\ [][NextDecode]_vars

(***************************************************************************)
(* Scheduling: a goroutine that stands at a step of its own after the      *)
(* inference has returned eventually takes that step.  Nothing is assumed  *)
(* of the inference engine, of the consumer or of the arrival of audio.    *)
(***************************************************************************)
FairSpec ==
    /\ Spec
    /\ \A p \in Procs : WF_vars(BuildEnvelope(p)) /\ WF_vars(Dispatch(p))

\* the call of goroutine p has returned
Finished(p) == pc[p] = "idle" /\ trace[p] # <<>>

\* goroutine p executes its select in this step
DispatchStep(p) == pc[p] = "dispatch" /\ pc'[p] # "dispatch"

\* the call to bn.Predict of goroutine p returns in this step
PredictStep(p) == pc[p] = "predict" /\ pc'[p] # "predict"

\* the number of messages offered to the channel that it did not take
Shed == attempts - (Len(ResultsQueue) + Len(consumed))

Min(a, b) == IF a < b THEN a ELSE b

(***************************************************************************)
(* The dispatch queue.                                                     *)
(***************************************************************************)
\* C1: a call that executes the select appends its message to the queue if
\* and only if the queue holds fewer than QueueCap messages at that moment,
\* and otherwise leaves the queue as it is; as long as the consumer has
\* received nothing, the first QueueCap attempts are all in the queue and
\* every further one is shed.
C1_EnqueueIffRoom ==
    [][ /\ \A p \in Procs :
              DispatchStep(p) =>
                 IF Len(ResultsQueue) < QueueCap
                 THEN /\ ResultsQueue' =
                            Append(ResultsQueue, frame[p].resultsMessage[1])
                      /\ outcome'[p] = "enqueued"
                 ELSE /\ ResultsQueue' = ResultsQueue
                      /\ outcome'[p] = "shed"
        /\ consumed' = <<>> =>
              /\ Len(ResultsQueue') = Min(attempts', QueueCap)
              /\ Shed' = attempts' - Min(attempts', QueueCap)
      ]_vars

\* QueueCap + 1 calls reached the select with no drain: the last was shed
C1_Witness ==
    /\ consumed = <<>>
    /\ attempts = QueueCap + 1
    /\ Len(ResultsQueue) = QueueCap
    /\ \E p \in Procs : Finished(p) /\ outcome[p] = "shed"

\* C2: a call in which the decoding and the inference both succeeded
\* returns nil, whether its message was enqueued or shed.
C2_SuccessReturnsNil ==
    \A p \in Procs :
       (Finished(p) /\ frame[p].err = <<>>) =>
          /\ ret[p] = <<>>
          /\ outcome[p] \in {"enqueued", "shed"}

\* a call whose message was shed has returned
C2_Witness ==
    \E p \in Procs :
       /\ Finished(p)
       /\ outcome[p] = "shed"
       /\ Len(ResultsQueue) = QueueCap

\* C3: the log holds one "Queue is full!" line for each shed message and
\* nothing else: none for an enqueued message, none for a call that failed
\* before the select.
C3_OneLinePerShed ==
    /\ Len(logged) = Shed
    /\ \A i \in 1..Len(logged) : logged[i] = "Queue is full!"

\* one message shed after two were enqueued, one of them already received
C3_Witness ==
    /\ Len(logged) = 1
    /\ Len(ResultsQueue) = 1
    /\ Len(consumed) = 1

(***************************************************************************)
(* Failures.                                                               *)
(***************************************************************************)
\* C4: when bn.Predict reports an error, the call returns at once with
\* "error predicting species" wrapping that error; the step leaves the queue
\* and the log as they are, and the call builds no message and never
\* reaches the select.
C4_PredictFailure ==
    [][ \A p \in Procs :
           /\ (PredictStep(p) /\ frame'[p].err # <<>>) =>
                  /\ pc'[p] = "idle"
                  /\ ret'[p] = <<"error predicting species">> \o frame'[p].err
                  /\ ResultsQueue' = ResultsQueue
                  /\ logged' = logged
           /\ (frame'[p].err # <<>>) =>
                  /\ frame'[p].resultsMessage = <<>>
                  /\ outcome'[p] = "none"
                  /\ trace'[p][Len(trace'[p])] \in {"Decode", "Infer"}
      ]_vars

\* a call has failed in the inference while the queue held a message
C4_Witness ==
    \E p \in Procs :
       /\ Finished(p)
       /\ trace[p] = <<"Decode", "Infer">>
       /\ ret[p] = <<"error predicting species", "interpreter invoke failed">>
       /\ ResultsQueue # <<>>

\* C5: with a bit depth other than 16, 24 and 32, ConvertToFloat32 returns
\* a nil slice and an error, and every call returns the conversion error
\* after the decode step: no inference, no message, nothing sent, logged or
\* received.
C5_UnsupportedDepth ==
    bitDepth \notin {16, 24, 32} =>
       /\ \A b \in BufIds :
             LET r == ConvertToFloat32(heap[b], bitDepth)
             IN  r.val = <<>> /\ r.err # <<>>
       /\ ResultsQueue = <<>> /\ logged = <<>> /\ consumed = <<>>
       /\ attempts = 0
       /\ \A p \in Procs :
             /\ pc[p] \in {"idle", "decode"}
             /\ trace[p] \in {<<>>, <<"Decode">>}
             /\ frame[p].sampleData = <<>>
             /\ frame[p].results = <<>>
             /\ frame[p].resultsMessage = <<>>
             /\ Finished(p) =>
                   ret[p] =
                     <<"error converting " \o ToString(bitDepth)
                         \o " bit PCM data to float32",
                       "unsupported audio bit depth">>

\* a call with bit depth 8 has returned its error
C5_Witness ==
    /\ bitDepth = 8
    /\ \E p \in Procs : Finished(p) /\ Len(ret[p]) = 2 /\ Len(passed[p]) > 0

(***************************************************************************)
(* Progress.                                                               *)
(***************************************************************************)
\* C6: a call whose inference has returned goes on to return to its
\* caller, with the queue full or not and with no help from the consumer.
C6_ProducerNeverBlocks ==
    \A p \in Procs : (pc[p] \in {"build", "dispatch"}) ~> (pc[p] = "idle")

\* a call has returned from a full queue that the consumer never touched
\* and that the other goroutine had a part in filling
C6_Witness ==
    \E p, q \in Procs :
       /\ p # q
       /\ Finished(p) /\ outcome[p] = "shed"
       /\ Finished(q) /\ outcome[q] = "enqueued"
       /\ consumed = <<>>

(***************************************************************************)
(* The decoder.                                                            *)
(***************************************************************************)
RECURSIVE LowSum(_, _)
\* the value of the first k bytes of g read as a little-endian number
LowSum(g, k) ==
    IF k = 0 THEN 0 ELSE g[k] * 256 ^ (k - 1) + LowSum(g, k - 1)

\* the little-endian two's-complement value of the byte group g
SignedLE(g) ==
    LET n   == Len(g)
        top == g[n]
    IN  (IF top >= 128 THEN top - 256 ELSE top) * 256 ^ (n - 1)
        + LowSum(g, n - 1)

\* the integer the decoder assembles for sample i (from 0) at depth d
SampleInt(sample, i, d) ==
    CASE d = 16 -> Sample16(sample, i)
      [] d = 24 -> Sample24(sample, i)
      [] d = 32 -> Sample32(sample, i)

\* C7: at the depths 16, 24 and 32 the decoding of a buffer of any length
\* succeeds and yields one channel of Len(bytes) \div (d/8) samples, sample
\* i being the value of the i-th group of d/8 bytes alone; the bytes of a
\* trailing partial group play no part.
C7_OneChannelOfGroups ==
    \A p \in Procs :
       (trace[p] = <<"Decode">> /\ bitDepth \in {16, 24, 32}) =>
          LET bytes == heap[frame[p].data]
              w     == bitDepth \div 8
              out   == frame[p].sampleData
          IN  /\ pc[p] = "predict"
              /\ frame[p].err = <<>>
              /\ Len(out) = 1
              /\ Len(out[1]) = Len(bytes) \div w
              /\ \A i \in 1..Len(out[1]) :
                    out[1][i] =
                       DivPow2(Float32(SignedLE(
                                  SubSeq(bytes, (i - 1) * w + 1, i * w))),
                               bitDepth - 1)

\* five bytes decoded at 16 bit gave two samples
C7_Witness ==
    /\ bitDepth = 16
    /\ pc["p1"] = "predict"
    /\ Len(heap[frame["p1"].data]) = 5
    /\ Len(frame["p1"].sampleData[1]) = 2

\* C8: the integer the decoder assembles from a group of d/8 bytes is the
\* little-endian two's-complement value of the group and lies in
\* -2^(d-1) .. 2^(d-1)-1; at 24 bit its bits 24..31 are all ones when bit
\* 23 is set and all zeros otherwise, so that 00 00 80 gives -2^23 (the
\* sample -1.0), FF FF 7F gives 2^23-1 and a group of zeros gives 0.
C8_SignedLittleEndian ==
    \A p \in Procs :
       (trace[p] = <<"Decode">> /\ bitDepth \in {16, 24, 32}) =>
          LET bytes == heap[frame[p].data]
              w     == bitDepth \div 8
          IN  \A i \in 0..(Len(bytes) \div w - 1) :
                 LET g == SubSeq(bytes, i * w + 1, i * w + w)
                     v == SampleInt(bytes, i, bitDepth)
                 IN  /\ v = SignedLE(g)
                     /\ v \div 2 ^ (bitDepth - 2) \in -2..1
                     /\ bitDepth = 24 =>
                           /\ (v \div 2 ^ 24) % 256 =
                                 (IF (v \div 2 ^ 23) % 2 = 1 THEN 255 ELSE 0)
                           /\ g = <<0, 0, 128>> => v = -8388608
                           /\ g = <<255, 255, 127>> => v = 8388607
                           /\ (g = <<0, 0, 128>> /\ pc[p] = "predict") =>
                                 frame[p].sampleData[1][i + 1] =
                                    [sig |-> -1, exp |-> 0]
                     /\ (\A k \in 1..w : g[k] = 0) => v = 0

\* the smallest and the largest 24-bit pattern have been decoded
C8_Witness ==
    /\ bitDepth = 24
    /\ pc["p1"] = "predict"
    /\ heap[frame["p1"].data] = <<0, 0, 128, 255, 255, 127>>
    /\ frame["p1"].sampleData[1][1] = [sig |-> -1, exp |-> 0]

(***************************************************************************)
(* The message.                                                            *)
(***************************************************************************)
\* C9: the message a call puts into the queue carries the startTime and the
\* source the call was given, the results bn.Predict returned to it for the
\* window, and as PCMdata the caller's buffer itself, whose bytes are at
\* that moment the bytes the caller passed in.
C9_MessageOfTheCall ==
    [][ \A p \in Procs :
           (DispatchStep(p) /\ Len(ResultsQueue') = Len(ResultsQueue) + 1) =>
              LET e == ResultsQueue'[Len(ResultsQueue')]
              IN  /\ e.StartTime = frame[p].startTime
                  /\ e.StartTime \in {ArrivalTime(c) : c \in 1..calls}
                  /\ e.Source = frame[p].source
                  /\ e.Source = SourceOf[p]
                  /\ e.Results = frame[p].results
                  /\ e.Results =
                        Detect(ConvertToFloat32(passed[p], bitDepth).val)
                  /\ e.PCMdata = frame[p].data
                  /\ heap'[e.PCMdata] = passed[p]
      ]_vars

\* the queue holds the messages of two sources with different detections
C9_Witness ==
    /\ Len(ResultsQueue) = 2
    /\ ResultsQueue[1].Source # ResultsQueue[2].Source
    /\ ResultsQueue[1].Results # ResultsQueue[2].Results

\* C10: the bytes of a queued message stay what they were when the message
\* was sent, whatever the caller does with its buffer after the call.
C10_QueuedBytesFrozen ==
    \A i \in 1..Len(ResultsQueue) :
       heap[ResultsQueue[i].PCMdata] = queuedBytes[i]


(***************************************************************************)
(* C11-C16.                                                                *)
(***************************************************************************)
\* the position, among the selects executed so far, of the one that sent m
SendIndex(m) ==
    CHOOSE k \in 1..Len(dispatched) :
        dispatched[k].sent /\ dispatched[k].msg = m

\* every message the consumer has received was sent by some select
AllSent(ms) ==
    \A i \in 1..Len(ms) :
        \E k \in 1..Len(dispatched) :
            dispatched[k].sent /\ dispatched[k].msg = ms[i]

\* C11: the channel is first-in first-out for each producer: of two messages
\* that the same producer (the same Source) got into the channel, the
\* consumer receives first the one whose send came first, and a message
\* still buffered was sent after every received message of its producer;
\* whatever the other producer, the sheds and the drains did in between.
C11_FifoPerProducer ==
    LET all == consumed \o ResultsQueue
    IN  /\ AllSent(all)
        /\ \A i, j \in 1..Len(all) :
              (i < j /\ all[i].Source = all[j].Source)
                  => SendIndex(all[i]) < SendIndex(all[j])

\* the consumer has received two messages of one producer with a message of
\* the other producer between them
C11_Witness ==
    /\ Len(consumed) = 3
    /\ consumed[1].Source = consumed[3].Source
    /\ consumed[2].Source # consumed[1].Source
    /\ SendIndex(consumed[1]) < SendIndex(consumed[3])

\* the call to ConvertToFloat32 of goroutine p returns in this step
DecodeStep(p) == pc[p] = "decode" /\ pc'[p] # "decode"

\* C12: the latency probe reads its start time after the decoding has
\* finished, immediately before bn.Predict is invoked, so that the measured
\* interval holds the inference and not the decode step: at the step that
\* ends the decoding of a call and leads to the inference, the start time
\* of the call is the clock at the end of that step, not an earlier reading.
C12_ProbeStartsAfterDecode ==
    [][\A p \in Procs :
          (DecodeStep(p) /\ pc'[p] = "predict")
              => frame'[p].predictStart = now']_vars

\* the stages of one call, in the order of the statements of ProcessData
Stages == <<"Decode", "Infer", "BuildEnvelope", "Dispatch">>

IsPrefix(s, t) == Len(s) <= Len(t) /\ s = SubSeq(t, 1, Len(s))

\* C13: a call runs Decode, Infer, BuildEnvelope, Dispatch in that order,
\* each at most once (no stage is tried again); bn.Predict is invoked only
\* with the samples of a decode that returned no error, the select is
\* executed only after an inference that returned no error, and a stage that
\* fails ends the call: it returns the error, and the goroutine's next step
\* is a new call.
C13_StagesInOrderNoRetry ==
    [][\A p \in Procs :
          /\ IsPrefix(trace'[p], Stages)
          /\ PredictStep(p) =>
                /\ trace[p] = <<"Decode">>
                /\ frame[p].err = <<>>
                /\ frame[p].sampleData =
                       ConvertToFloat32(passed[p], bitDepth).val
          /\ DispatchStep(p) =>
                /\ trace[p] = <<"Decode", "Infer", "BuildEnvelope">>
                /\ frame[p].err = <<>>
          /\ (frame'[p].err # <<>>) =>
                /\ pc'[p] = "idle"
                /\ ret'[p] # <<>>
                /\ Len(trace'[p]) \in 1..2
          /\ (pc[p] = "idle" /\ pc'[p] # "idle") =>
                /\ pc'[p] = "decode"
                /\ trace'[p] = <<>>
                /\ calls' = calls + 1]_vars

\* one call has run all four stages and another has ended at a failed
\* inference
C13_Witness ==
    \E p, q \in Procs :
        /\ p # q
        /\ Finished(p) /\ trace[p] = Stages /\ ret[p] = <<>>
        /\ Finished(q) /\ trace[q] = <<"Decode", "Infer">> /\ ret[q] # <<>>

\* C14: in every reachable state the channel buffers between 0 and QueueCap
\* messages, whatever the producers and the consumer do; calls that arrive
\* while it is full do not make it longer.
C14_QueueWithinCapacity ==
    /\ Len(ResultsQueue) \in 0..QueueCap
    /\ Len(queuedBytes) = Len(ResultsQueue)
    /\ Len(ResultsQueue) + Len(consumed) + Len(logged) = attempts

\* the channel is full and a call that found it full has been shed
C14_Witness ==
    /\ Len(ResultsQueue) = QueueCap
    /\ Shed = 1
    /\ attempts = QueueCap + 1

\* the call of goroutine p has decoded its buffer
Decoded(p) == trace[p] # <<>>

IsSent(e) == e.sent

\* the messages the channel has taken, in the order of their sends
Enqueued ==
    LET sent == SelectSeq(dispatched, IsSent)
    IN  [i \in 1..Len(sent) |-> sent[i].msg]

\* the selects that have offered message m to the channel
OffersOf(m) == {k \in 1..Len(dispatched) : dispatched[k].msg = m}

\* C16: every call that passed the inference ends in exactly one of
\* enqueued and shed: its message was offered to the channel by exactly one
\* select, which either sent it or took the default.  The number of selects
\* executed is the number of messages sent plus the number shed, and the
\* messages received so far followed by those still buffered are the
\* messages sent, in the order sent, each once: none is lost, none doubled.
C16_EnqueuedOrShedOnce ==
    LET all == consumed \o ResultsQueue
    IN  /\ Len(dispatched) = attempts
        /\ attempts = Len(Enqueued) + Len(logged)
        /\ all = Enqueued
        /\ \A i, j \in 1..Len(all) : all[i] = all[j] => i = j
        /\ \A p \in Procs :
              /\ (pc[p] \in {"build", "dispatch"}) => outcome[p] = "none"
              /\ (Finished(p) /\ Len(trace[p]) = 4) =>
                    LET m == frame[p].resultsMessage[1]
                    IN  /\ outcome[p] \in {"enqueued", "shed"}
                        /\ Cardinality(OffersOf(m)) = 1
                        /\ \A k \in OffersOf(m) :
                              /\ dispatched[k].sent
                                     <=> (outcome[p] = "enqueued")
                              /\ dispatched[k].sent
                                     <=> (\E i \in 1..Len(all) : all[i] = m)

\* of the calls that passed the inference one was shed at a full channel and
\* the others were enqueued, and the consumer has since received one of them
C16_Witness ==
    /\ attempts = QueueCap + 1
    /\ Len(consumed) = 1
    /\ Len(ResultsQueue) = QueueCap - 1
    /\ \E k \in 1..Len(dispatched) : ~dispatched[k].sent
    /\ \E p, q \in Procs : outcome[p] = "shed" /\ outcome[q] = "enqueued"
=============================================================================
